---- MODULE Spec2Model ----
(***************************************************************************)
(* DeltaOne ROI calculator (delta_one_roi_calculator_petg_react.jsx).      *)
(*                                                                         *)
(* The engine computeROI works on JavaScript numbers, i.e. IEEE-754        *)
(* binary64 values.  They are modelled bit-exactly: a number is a record   *)
(* [k, s, m, e] with k in {"fin","inf","nan"}, sign s, and for a finite    *)
(* value the magnitude m * 2^e, m a natural number of at most 53 bits kept *)
(* as a little-endian sequence of 14-bit limbs (TLC integers are 32 bit).  *)
(* Every arithmetic operator rounds to nearest, ties to even.              *)
(***************************************************************************)
EXTENDS Integers, Sequences, FiniteSets, TLC

(***************************************************************************)
(* Evaluation device.  TLC passes operator arguments and LET definitions   *)
(* by name; Bind(x, Op) evaluates x once and applies Op to the value.      *)
(***************************************************************************)
Bind(x, Op(_)) == CHOOSE r \in { Op(v) : v \in { x } } : TRUE
Bind2(x, y, Op(_, _)) == CHOOSE r \in { Op(v, w) : v \in { x }, w \in { y } } : TRUE

Max(a, b) == IF a >= b THEN a ELSE b
Min(a, b) == IF a <= b THEN a ELSE b

(***************************************************************************)
(* Natural numbers of arbitrary size, as little-endian limb sequences      *)
(* without leading zero limbs.                                             *)
(***************************************************************************)
LimbBits == 14
Base == 16384

BLimb(a, i) == IF i >= 1 /\ i <= Len(a) THEN a[i] ELSE 0

\* index of the highest non-zero limb, 0 if there is none
BTop(a) ==
  IF \A i \in 1..Len(a) : a[i] = 0 THEN 0
  ELSE CHOOSE i \in 1..Len(a) : a[i] # 0 /\ \A j \in (i + 1)..Len(a) : a[j] = 0

BNorm(a) == Bind(a, LAMBDA v : SubSeq(v, 1, BTop(v)))

\* 0 <= n < 2^31
BFromInt(n) ==
  Bind(n, LAMBDA v : BNorm(<< v % Base, (v \div Base) % Base, v \div (Base * Base) >>))

\* number of bits of 0 <= n < 2^30
IntBitLen(n) ==
  Bind(n, LAMBDA v : IF v = 0 THEN 0
                     ELSE CHOOSE b \in 1..30 : 2 ^ (b - 1) <= v /\ (b = 30 \/ v < 2 ^ b))

BLen(a) ==
  Bind(a, LAMBDA v : IF v = <<>> THEN 0
                     ELSE (Len(v) - 1) * LimbBits + IntBitLen(v[Len(v)]))

BOdd(a) == BLimb(a, 1) % 2 = 1

\* the limbs of the number whose i-th column (weight Base^(i-1)) holds cols[i];
\* the last column must be able to take the last carry
RECURSIVE CarryC(_, _, _)
CarryC(cols, i, c) ==
  IF i > Len(cols) THEN <<>>
  ELSE Bind(cols[i] + c, LAMBDA t : << t % Base >> \o CarryC(cols, i + 1, t \div Base))

Carry(cols) == BNorm(Bind(cols, LAMBDA v : CarryC(v, 1, 0)))

BAdd(a, b) ==
  Bind2(a, b, LAMBDA v, w :
    Carry([i \in 1..(Max(Len(v), Len(w)) + 1) |-> BLimb(v, i) + BLimb(w, i)]))

\* a - b for a >= b
RECURSIVE BSubC(_, _, _, _)
BSubC(a, b, i, c) ==
  IF i > Len(a) THEN <<>>
  ELSE Bind(BLimb(a, i) - BLimb(b, i) - c, LAMBDA t :
         IF t < 0 THEN << t + Base >> \o BSubC(a, b, i + 1, 1)
         ELSE << t >> \o BSubC(a, b, i + 1, 0))

BSub(a, b) == BNorm(Bind2(a, b, LAMBDA v, w : BSubC(v, w, 1, 0)))

\* -1, 0, 1 as a < b, a = b, a > b
BCmp(a, b) ==
  Bind2(a, b, LAMBDA v, w :
    IF Len(v) # Len(w) THEN (IF Len(v) < Len(w) THEN -1 ELSE 1)
    ELSE IF v = w THEN 0
    ELSE Bind(CHOOSE i \in 1..Len(v) :
                v[i] # w[i] /\ \A j \in (i + 1)..Len(v) : v[j] = w[j],
              LAMBDA i : IF v[i] < w[i] THEN -1 ELSE 1))

\* column k (from 1) of the schoolbook product: the sum of a[i] * b[k + 1 - i]
RECURSIVE BCol(_, _, _, _)
BCol(a, b, k, i) ==
  IF i > Len(a) THEN 0
  ELSE a[i] * BLimb(b, k + 1 - i) + BCol(a, b, k, i + 1)

\* a * b for factors of at most four limbs (a column sum stays below 2^31)
BMul(a, b) ==
  Bind2(a, b, LAMBDA v, w :
    IF v = <<>> \/ w = <<>> THEN <<>>
    ELSE Carry([k \in 1..(Len(v) + Len(w)) |-> BCol(v, w, k, 1)]))

\* a * 2^n
BShl(a, n) ==
  Bind2(a, n, LAMBDA v, k :
    IF v = <<>> THEN v
    ELSE [i \in 1..(k \div LimbBits) |-> 0]
         \o Carry([i \in 1..(Len(v) + 1) |-> BLimb(v, i) * (2 ^ (k % LimbBits))]))

\* floor(a / 2^n)
BShr(a, n) ==
  Bind2(a, n, LAMBDA v, k :
    IF k \div LimbBits >= Len(v) THEN <<>>
    ELSE BNorm([i \in 1..(Len(v) - (k \div LimbBits)) |->
                  (v[i + (k \div LimbBits)] \div (2 ^ (k % LimbBits)))
                  + (BLimb(v, i + (k \div LimbBits) + 1) % (2 ^ (k % LimbBits)))
                    * (2 ^ (LimbBits - (k % LimbBits)))]))

\* bit i (from 0) of a
BBit(a, i) ==
  Bind(i, LAMBDA k : (BLimb(a, (k \div LimbBits) + 1) \div (2 ^ (k % LimbBits))) % 2)

\* the low n bits of a are all zero
BLowZero(a, n) ==
  Bind2(a, n, LAMBDA v, k :
    /\ \A i \in 1..Min(k \div LimbBits, Len(v)) : v[i] = 0
    /\ BLimb(v, (k \div LimbBits) + 1) % (2 ^ (k % LimbBits)) = 0)

\* quotient and remainder of a by a small divisor 0 < d < Base, from limb i down
RECURSIVE BDivC(_, _, _, _)
BDivC(a, d, i, rem) ==
  IF i = 0 THEN [q |-> <<>>, r |-> rem]
  ELSE Bind(rem * Base + a[i], LAMBDA t :
         Bind(BDivC(a, d, i - 1, t % d), LAMBDA lo :
           [q |-> Append(lo.q, t \div d), r |-> lo.r]))

BDivSmall(a, d) ==
  Bind2(a, d, LAMBDA v, w :
    Bind(BDivC(v, w, Len(v), 0), LAMBDA x : [q |-> BNorm(x.q), r |-> x.r]))

(***************************************************************************)
(* JavaScript numbers (IEEE-754 binary64).                                 *)
(***************************************************************************)
Precision == 53
EMin == -1074
EMax == 971

Fin(s, m, e) == [k |-> "fin", s |-> s, m |-> m, e |-> e]
Inf(s) == [k |-> "inf", s |-> s, m |-> <<>>, e |-> 0]
NaN == [k |-> "nan", s |-> 0, m |-> <<>>, e |-> 0]
Zero(s) == Fin(s, <<>>, 0)

IsNaN(x) == x.k = "nan"
IsInf(x) == x.k = "inf"
IsFinite(x) == x.k = "fin"
IsZero(x) == Bind(x, LAMBDA v : v.k = "fin" /\ v.m = <<>>)

\* Round for a magnitude that loses its low sh > 0 bits: the kept bits q go up
\* by one if the lost part is above half a unit, or is half and q is odd
RoundShifted(s, P, E, sticky, sh) ==
  Bind(BShr(P, sh), LAMBDA q :
    Bind(IF BBit(P, sh - 1) = 1 /\ (sticky \/ ~BLowZero(P, sh - 1) \/ BOdd(q))
           THEN BAdd(q, << 1 >>) ELSE q,
         LAMBDA m :
           IF m = <<>> THEN Zero(s)
           ELSE IF BLen(m) > Precision
             THEN (IF E + sh + 1 > EMax THEN Inf(s) ELSE Fin(s, BShr(m, 1), E + sh + 1))
           ELSE IF E + sh > EMax THEN Inf(s)
           ELSE Fin(s, m, E + sh)))

\* The binary64 value nearest to (-1)^s * (P + f) * 2^E, where f = 0 unless
\* sticky, and then 0 < f < 1.  Ties go to the even mantissa; a magnitude
\* beyond the largest finite value becomes Infinity; results below the
\* smallest normal value are subnormal (e = EMin, fewer than 53 bits).
Round(s, P, E, sticky) ==
  Bind2(P, E, LAMBDA p, e :
    IF p = <<>> THEN Zero(s)
    ELSE Bind(Max(BLen(p) - Precision, EMin - e), LAMBDA sh :
           IF sh <= 0
             THEN (IF e + sh > EMax THEN Inf(s) ELSE Fin(s, BShl(p, 0 - sh), e + sh))
             ELSE RoundShifted(s, p, e, sticky, sh)))

\* an integer literal or integer-valued input, |n| < 2^31
FromInt(n) ==
  Bind(n, LAMBDA v : IF v < 0 THEN Round(1, BFromInt(0 - v), 0, FALSE)
                     ELSE Round(0, BFromInt(v), 0, FALSE))

FNeg(x) == Bind(x, LAMBDA v : IF IsNaN(v) THEN v ELSE [v EXCEPT !.s = 1 - v.s])

FAbs(x) == Bind(x, LAMBDA v : IF IsNaN(v) THEN v ELSE [v EXCEPT !.s = 0])

\* x * y
FMul(x, y) ==
  Bind2(x, y, LAMBDA a, b :
    IF IsNaN(a) \/ IsNaN(b) THEN NaN
    ELSE IF IsInf(a) \/ IsInf(b)
      THEN (IF IsZero(a) \/ IsZero(b) THEN NaN ELSE Inf((a.s + b.s) % 2))
    ELSE Round((a.s + b.s) % 2, BMul(a.m, b.m), a.e + b.e, FALSE))

\* Magnitudes of two finite non-zero values brought to a common exponent.
\* When the exponents are more than 2 * Precision apart the smaller value is
\* below a quarter of the last place of the larger one and only matters as a
\* sticky bit: it is replaced by a unit two places below the larger mantissa.
Aligned(x, y) ==
  IF x.e - y.e > 2 * Precision
    THEN [e |-> x.e - 2, a |-> BShl(x.m, 2), b |-> << 1 >>, far |-> TRUE]
  ELSE IF y.e - x.e > 2 * Precision
    THEN [e |-> y.e - 2, a |-> << 1 >>, b |-> BShl(y.m, 2), far |-> TRUE]
  ELSE [e |-> Min(x.e, y.e), a |-> BShl(x.m, x.e - Min(x.e, y.e)),
        b |-> BShl(y.m, y.e - Min(x.e, y.e)), far |-> FALSE]

\* the sum of two finite non-zero values
AddFinite(x, y) ==
  Bind(Aligned(x, y), LAMBDA al :
    Bind(BCmp(al.a, al.b), LAMBDA c :
      IF x.s = y.s
        THEN Round(x.s, IF al.far THEN (IF c > 0 THEN al.a ELSE al.b)
                                  ELSE BAdd(al.a, al.b), al.e, al.far)
      ELSE IF c = 0 THEN Zero(0)
      ELSE IF c > 0 THEN Round(x.s, BSub(al.a, al.b), al.e, al.far)
      ELSE Round(y.s, BSub(al.b, al.a), al.e, al.far)))

\* x + y
FAdd(x, y) ==
  Bind2(x, y, LAMBDA a, b :
    IF IsNaN(a) \/ IsNaN(b) THEN NaN
    ELSE IF IsInf(a) THEN (IF IsInf(b) /\ b.s # a.s THEN NaN ELSE a)
    ELSE IF IsInf(b) THEN b
    ELSE IF IsZero(a) /\ IsZero(b) THEN (IF a.s = 1 /\ b.s = 1 THEN Zero(1) ELSE Zero(0))
    ELSE IF IsZero(a) THEN b
    ELSE IF IsZero(b) THEN a
    ELSE AddFinite(a, b))

\* x - y
FSub(x, y) == FAdd(x, FNeg(y))

\* x / d for a literal divisor d, an integer with 0 < d < Base
FDivInt(x, d) ==
  Bind(x, LAMBDA a :
    IF IsNaN(a) \/ IsInf(a) \/ IsZero(a) THEN a
    ELSE Bind(BDivSmall(BShl(a.m, 2 * LimbBits), d), LAMBDA qr :
           Round(a.s, qr.q, a.e - 2 * LimbBits, qr.r # 0)))

\* the decimal literal n / d (d a power of ten below Base), e.g. 0.33 = Lit(33, 100)
Lit(n, d) == FDivInt(FromInt(n), d)

\* the comparisons ===, <= and < of JavaScript (false on NaN; -0 === 0)
FEq(x, y) ==
  Bind2(x, y, LAMBDA a, b :
    /\ ~IsNaN(a) /\ ~IsNaN(b)
    /\ \/ IsZero(a) /\ IsZero(b)
       \/ a = b)

FLt(x, y) ==
  Bind2(x, y, LAMBDA a, b :
    /\ ~IsNaN(a) /\ ~IsNaN(b)
    /\ a # b
    /\ Bind(FSub(a, b), LAMBDA d : ~IsNaN(d) /\ ~IsZero(d) /\ d.s = 1))

FLe(x, y) == Bind2(x, y, LAMBDA a, b : FEq(a, b) \/ FLt(a, b))

(***************************************************************************)
(* The pure calculation.                                                   *)
(***************************************************************************)
\* Each const of the function body is an operator of the values it reads.
\* const jobsPerDay = p.jobsPerShift * p.shiftsPerDay
JobsPerDay(p) == FMul(p.jobsPerShift, p.shiftsPerDay)

\* a year of a fixed 250 days
JobsPerYearOfFixedDays(jobsPerDay, p) == FMul(jobsPerDay, FromInt(250))

\* const jobsPerYear = jobsPerDay * p.daysPerYear
JobsPerYear(jobsPerDay, p) == FMul(jobsPerDay, p.daysPerYear)

\* the avoided stops cut down to a whole number (Math.trunc)
StopsAvoidedPerJobWhole(p) ==
  Bind(FDivInt(FMul(p.stopsPerJobBaseline, p.reductionPercent), 100), LAMBDA x :
    IF IsFinite(x) /\ x.e < 0 THEN Round(x.s, BShr(x.m, 0 - x.e), 0, FALSE) ELSE x)

\* the stops that remain instead of the stops avoided
StopsRemainingPerJob(p) ==
  FDivInt(FMul(p.stopsPerJobBaseline, FSub(FromInt(100), p.reductionPercent)), 100)

\* const stopsAvoidedPerJob = (p.stopsPerJobBaseline * p.reductionPercent) / 100
StopsAvoidedPerJob(p) == FDivInt(FMul(p.stopsPerJobBaseline, p.reductionPercent), 100)

\* width and wasted length added instead of multiplied
M2PerStopSum(p) == FAdd(p.webWidth, p.wastePerStopM)

\* const m2PerStop = p.webWidth * p.wastePerStopM
M2PerStop(p) == FMul(p.webWidth, p.wastePerStopM)

\* const m2CalagePerYear = m2PerStop * stopsAvoidedPerJob * jobsPerYear
M2CalagePerYear(m2PerStop, stopsAvoided, jobsPerYear) ==
  FMul(FMul(m2PerStop, stopsAvoided), jobsPerYear)

\* the minutes of one shift only
MinutesPerShift(p) == FMul(p.hoursPerShift, FromInt(60))

\* const minutesPerDay = p.hoursPerShift * 60 * p.shiftsPerDay
MinutesPerDay(p) == FMul(FMul(p.hoursPerShift, FromInt(60)), p.shiftsPerDay)

\* const printedLengthPerDay = p.speedMPerMin * (p.uptimePercent / 100) * minutesPerDay
PrintedLengthPerDay(p) ==
  FMul(FMul(p.speedMPerMin, FDivInt(p.uptimePercent, 100)), MinutesPerDay(p))

\* const printedLengthPerYear = printedLengthPerDay * p.daysPerYear
PrintedLengthPerYear(printedLengthPerDay, p) == FMul(printedLengthPerDay, p.daysPerYear)

\* 3 cm written for 3 mm
ThreeCm == Lit(3, 100)

\* the literal 0.003 (3 mm in metres)
ThreeMm == Lit(3, 1000)

\* const m2ThreeMmPerYear = 0.003 * printedLengthPerYear
M2ThreeMmPerYear(printedLengthPerYear) == FMul(ThreeMm, printedLengthPerYear)

\* const euroCalage = m2CalagePerYear * p.substratePrice
EuroCalage(m2CalagePerYear, p) == FMul(m2CalagePerYear, p.substratePrice)

\* const euroThreeMm = m2ThreeMmPerYear * p.substratePrice
EuroThreeMm(m2ThreeMmPerYear, p) == FMul(m2ThreeMmPerYear, p.substratePrice)

\* the two savings subtracted instead of added
EuroTotalDifference(euroCalage, euroThreeMm) == FSub(euroCalage, euroThreeMm)

\* const euroTotal = euroCalage + euroThreeMm
EuroTotal(euroCalage, euroThreeMm) == FAdd(euroCalage, euroThreeMm)

\* the subscription added instead of subtracted
EuroNetPlusHaas(euroTotal, p) == FAdd(euroTotal, p.haasPrice)

\* const euroNet = euroTotal - p.haasPrice
EuroNet(euroTotal, p) == FSub(euroTotal, p.haasPrice)

\* The function body: the consts in the order of the source, each computed
\* once, then the returned object.
computeROI(p) ==
  Bind(JobsPerDay(p), LAMBDA jobsPerDay :
  Bind(JobsPerYear(jobsPerDay, p), LAMBDA jobsPerYear :
  Bind(StopsAvoidedPerJob(p), LAMBDA stopsAvoided :
  Bind(M2PerStop(p), LAMBDA m2PerStop :
  Bind(M2CalagePerYear(m2PerStop, stopsAvoided, jobsPerYear), LAMBDA m2CalagePerYear :
  Bind(PrintedLengthPerDay(p), LAMBDA printedLengthPerDay :
  Bind(PrintedLengthPerYear(printedLengthPerDay, p), LAMBDA printedLengthPerYear :
  Bind(M2ThreeMmPerYear(printedLengthPerYear), LAMBDA m2ThreeMmPerYear :
  Bind(EuroCalage(m2CalagePerYear, p), LAMBDA euroCalage :
  Bind(EuroThreeMm(m2ThreeMmPerYear, p), LAMBDA euroThreeMm :
  Bind(EuroTotal(euroCalage, euroThreeMm), LAMBDA euroTotal :
  Bind(EuroNet(euroTotal, p), LAMBDA euroNet :
    [ jobsPerDay           |-> jobsPerDay,
      jobsPerYear          |-> jobsPerYear,
      m2PerStop            |-> m2PerStop,
      m2CalagePerYear      |-> m2CalagePerYear,
      printedLengthPerYear |-> printedLengthPerYear,
      m2ThreeMmPerYear     |-> m2ThreeMmPerYear,
      euroCalage           |-> euroCalage,
      euroThreeMm          |-> euroThreeMm,
      euroTotal            |-> euroTotal,
      euroNet              |-> euroNet ]))))))))))))

(***************************************************************************)
(* The self-test panel.                                                    *)
(***************************************************************************)
\* the default tolerancePct = 0.001
DefaultTolerancePct == Lit(1, 1000)

\* the comparison with < for <=
approxEqualStrict(actual, wanted, tolerancePct) ==
  Bind(FMul(FAbs(wanted), tolerancePct), LAMBDA tol :
    FLt(FAbs(FSub(actual, wanted)), tol))

\* const tol = Math.abs(expected) * tolerancePct;
\* return Math.abs(actual - expected) <= tol;
approxEqual(actual, wanted, tolerancePct) ==
  Bind(FMul(FAbs(wanted), tolerancePct), LAMBDA tol :
    FLe(FAbs(FSub(actual, wanted)), tol))

baselineParams ==
  [ webWidth            |-> Lit(33, 100),
    jobsPerShift        |-> FromInt(6),
    shiftsPerDay        |-> FromInt(2),
    daysPerYear         |-> FromInt(250),
    stopsPerJobBaseline |-> FromInt(6),
    reductionPercent    |-> FromInt(50),
    wastePerStopM       |-> FromInt(100),
    speedMPerMin        |-> FromInt(165),
    uptimePercent       |-> FromInt(60),
    hoursPerShift       |-> FromInt(8),
    substratePrice      |-> Lit(6, 10),
    haasPrice           |-> FromInt(20000) ]

\* 0.33 * 100 * (6*0.5) * (6*2*250) and 0.003 * (165 * 0.6 * (8*60*2) * 250)
expected ==
  [ m2CalagePerYear  |->
      FMul(FMul(FMul(Lit(33, 100), FromInt(100)), FMul(FromInt(6), Lit(5, 10))),
           FMul(FMul(FromInt(6), FromInt(2)), FromInt(250))),
    m2ThreeMmPerYear |->
      FMul(Lit(3, 1000),
           FMul(FMul(FMul(FromInt(165), Lit(6, 10)),
                     FMul(FMul(FromInt(8), FromInt(60)), FromInt(2))),
                FromInt(250))) ]

TestPanel ==
  Bind(computeROI(baselineParams), LAMBDA b :
    << [ name |-> "Calage m2/year",
         pass |-> approxEqual(b.m2CalagePerYear, expected.m2CalagePerYear, DefaultTolerancePct) ],
       [ name |-> "-3 mm m2/year",
         pass |-> approxEqual(b.m2ThreeMmPerYear, expected.m2ThreeMmPerYear, DefaultTolerancePct) ] >>)

(***************************************************************************)
(* The calculator component: one state hook per input.                     *)
(***************************************************************************)
VARIABLES webWidth, jobsPerShift, shiftsPerDay, daysPerYear, stopsPerJobBaseline,
          reductionPercent, wastePerStopM, speedMPerMin, uptimePercent,
          substratePrice, substrate, haasPrice,
          pending, saved, logged, alerts, edits, call

inputs == << webWidth, jobsPerShift, shiftsPerDay, daysPerYear, stopsPerJobBaseline,
             reductionPercent, wastePerStopM, speedMPerMin, uptimePercent,
             substratePrice, substrate, haasPrice >>

exportState == << pending, saved, logged, alerts >>

vars == << inputs, exportState, edits, call >>

\* bounds of the exploration: input events and export clicks per run, and the
\* number of fields in which an engine call differs from the baseline
MaxEdits == 2
MaxExports == 2
MaxDeviations == 2

\* const hoursPerShift = 8
hoursPerShift == FromInt(8)

params ==
  [ webWidth            |-> webWidth,
    jobsPerShift        |-> jobsPerShift,
    shiftsPerDay        |-> shiftsPerDay,
    daysPerYear         |-> daysPerYear,
    stopsPerJobBaseline |-> stopsPerJobBaseline,
    reductionPercent    |-> reductionPercent,
    wastePerStopM       |-> wastePerStopM,
    speedMPerMin        |-> speedMPerMin,
    uptimePercent       |-> uptimePercent,
    hoursPerShift       |-> hoursPerShift,
    substratePrice      |-> substratePrice,
    haasPrice           |-> haasPrice ]

\* the values of one render
r == computeROI(params)

stopsAvoidedPerJob == FDivInt(FMul(stopsPerJobBaseline, reductionPercent), 100)

stopsAvoidedPerYear == FMul(stopsAvoidedPerJob, r.jobsPerYear)

tests == TestPanel

\* The text of a number field: empty, or a decimal with two places, h
\* hundredths with a sign ("2.5" is h = 250; "-1" is neg, h = 100).
EmptyText == [empty |-> TRUE, neg |-> FALSE, h |-> 0]
Text(neg, h) == [empty |-> FALSE, neg |-> neg, h |-> h]

Texts == { EmptyText, Text(FALSE, 1200), Text(FALSE, 250), Text(TRUE, 100) }

\* parseInt(e.target.value || '0', 10): the integer part, the fraction dropped
parseInt(t) ==
  IF t.empty THEN FromInt(0)
  ELSE IF t.neg THEN FNeg(FromInt(t.h \div 100))
  ELSE FromInt(t.h \div 100)

\* parseFloat(e.target.value || '0'): the nearest number to the decimal
parseFloat(t) ==
  IF t.empty THEN FromInt(0)
  ELSE IF t.neg THEN FNeg(Lit(t.h, 100))
  ELSE Lit(t.h, 100)

\* what the number fields hand to their setters for these texts
IntInputs == { parseInt(t) : t \in Texts }
FloatInputs == { parseFloat(t) : t \in Texts }

\* slider positions offered to the model (the sliders' ends); the width
\* slider's value goes through Number(v[0].toFixed(2)), the nearest number to
\* the two-place decimal
WidthInputs == { Lit(h, 100) : h \in { 20, 100 } }
PercentInputs == { FromInt(v) : v \in { 0, 100 } }
SpeedInputs == { FromInt(v) : v \in { 0, 300 } }
ShiftOptions == { FromInt(opt) : opt \in { 1, 2, 3 } }

Substrates == { "PETG", "PVC", "OPS", "BOPP" }

\* def = { PETG:0.6, PVC:0.45, OPS:0.52, BOPP:0.30 }
def == [ PETG |-> Lit(6, 10), PVC |-> Lit(45, 100), OPS |-> Lit(52, 100), BOPP |-> Lit(30, 100) ]

\* the three preset buttons: 0.5, 0.6, 0.7
Presets == { Lit(5, 10), Lit(6, 10), Lit(7, 10) }

NoResult == [none |-> TRUE]
NoCall == [fn |-> "none", args |-> <<>>, ret |-> NoResult]

\* the arguments of the useState calls
initialState ==
  [ webWidth            |-> Lit(33, 100),
    jobsPerShift        |-> FromInt(6),
    shiftsPerDay        |-> FromInt(2),
    daysPerYear         |-> FromInt(250),
    stopsPerJobBaseline |-> FromInt(6),
    reductionPercent    |-> FromInt(50),
    wastePerStopM       |-> FromInt(100),
    speedMPerMin        |-> FromInt(165),
    uptimePercent       |-> FromInt(60),
    substratePrice      |-> Lit(6, 10),
    substrate           |-> "PETG",
    haasPrice           |-> FromInt(20000) ]

\* the values resetToDefaults writes (it leaves the substrate alone)
resetValues ==
  [ webWidth            |-> Lit(33, 100),
    jobsPerShift        |-> FromInt(6),
    shiftsPerDay        |-> FromInt(2),
    daysPerYear         |-> FromInt(250),
    stopsPerJobBaseline |-> FromInt(6),
    reductionPercent    |-> FromInt(50),
    wastePerStopM       |-> FromInt(100),
    speedMPerMin        |-> FromInt(165),
    uptimePercent       |-> FromInt(60),
    substratePrice      |-> Lit(6, 10),
    haasPrice           |-> FromInt(20000) ]

\* the state hooks after the first render
Mounted ==
  \E s \in { initialState } :
    /\ webWidth = s.webWidth
    /\ jobsPerShift = s.jobsPerShift
    /\ shiftsPerDay = s.shiftsPerDay
    /\ daysPerYear = s.daysPerYear
    /\ stopsPerJobBaseline = s.stopsPerJobBaseline
    /\ reductionPercent = s.reductionPercent
    /\ wastePerStopM = s.wastePerStopM
    /\ speedMPerMin = s.speedMPerMin
    /\ uptimePercent = s.uptimePercent
    /\ substratePrice = s.substratePrice
    /\ substrate = s.substrate
    /\ haasPrice = s.haasPrice

Init ==
  /\ Mounted
  /\ pending = 0
  /\ saved = 0
  /\ logged = <<>>
  /\ alerts = 0
  /\ edits = 0
  /\ call = NoCall

\* an input event is counted; nothing else of the bookkeeping moves
Edit ==
  /\ edits < MaxEdits
  /\ edits' = edits + 1
  /\ UNCHANGED << exportState, call >>

\* onValueChange={(v) => setWebWidth(Number(v[0].toFixed(2)))}
SetWebWidth ==
  /\ Edit
  /\ \E v \in WidthInputs : webWidth' = v
  /\ UNCHANGED << jobsPerShift, shiftsPerDay, daysPerYear, stopsPerJobBaseline,
                  reductionPercent, wastePerStopM, speedMPerMin, uptimePercent,
                  substratePrice, substrate, haasPrice >>

SetJobsPerShift ==
  /\ Edit
  /\ \E v \in IntInputs : jobsPerShift' = v
  /\ UNCHANGED << webWidth, shiftsPerDay, daysPerYear, stopsPerJobBaseline,
                  reductionPercent, wastePerStopM, speedMPerMin, uptimePercent,
                  substratePrice, substrate, haasPrice >>

\* <Segmented value={shiftsPerDay} onChange={setShiftsPerDay} options={[1,2,3]} />
SetShiftsPerDay ==
  /\ Edit
  /\ \E opt \in ShiftOptions : shiftsPerDay' = opt
  /\ UNCHANGED << webWidth, jobsPerShift, daysPerYear, stopsPerJobBaseline,
                  reductionPercent, wastePerStopM, speedMPerMin, uptimePercent,
                  substratePrice, substrate, haasPrice >>

SetDaysPerYear ==
  /\ Edit
  /\ \E v \in IntInputs : daysPerYear' = v
  /\ UNCHANGED << webWidth, jobsPerShift, shiftsPerDay, stopsPerJobBaseline,
                  reductionPercent, wastePerStopM, speedMPerMin, uptimePercent,
                  substratePrice, substrate, haasPrice >>

SetStopsPerJobBaseline ==
  /\ Edit
  /\ \E v \in IntInputs : stopsPerJobBaseline' = v
  /\ UNCHANGED << webWidth, jobsPerShift, shiftsPerDay, daysPerYear,
                  reductionPercent, wastePerStopM, speedMPerMin, uptimePercent,
                  substratePrice, substrate, haasPrice >>

SetReductionPercent ==
  /\ Edit
  /\ \E v \in PercentInputs : reductionPercent' = v
  /\ UNCHANGED << webWidth, jobsPerShift, shiftsPerDay, daysPerYear, stopsPerJobBaseline,
                  wastePerStopM, speedMPerMin, uptimePercent,
                  substratePrice, substrate, haasPrice >>

SetWastePerStopM ==
  /\ Edit
  /\ \E v \in IntInputs : wastePerStopM' = v
  /\ UNCHANGED << webWidth, jobsPerShift, shiftsPerDay, daysPerYear, stopsPerJobBaseline,
                  reductionPercent, speedMPerMin, uptimePercent,
                  substratePrice, substrate, haasPrice >>

SetSpeedMPerMin ==
  /\ Edit
  /\ \E v \in SpeedInputs : speedMPerMin' = v
  /\ UNCHANGED << webWidth, jobsPerShift, shiftsPerDay, daysPerYear, stopsPerJobBaseline,
                  reductionPercent, wastePerStopM, uptimePercent,
                  substratePrice, substrate, haasPrice >>

SetUptimePercent ==
  /\ Edit
  /\ \E v \in PercentInputs : uptimePercent' = v
  /\ UNCHANGED << webWidth, jobsPerShift, shiftsPerDay, daysPerYear, stopsPerJobBaseline,
                  reductionPercent, wastePerStopM, speedMPerMin,
                  substratePrice, substrate, haasPrice >>

\* onClick={() => { setSubstrate(s); ...; setSubstratePrice(def[s]); }}
SelectSubstrate ==
  /\ Edit
  /\ \E s \in Substrates :
       /\ substrate' = s
       /\ substratePrice' = def[s]
  /\ UNCHANGED << webWidth, jobsPerShift, shiftsPerDay, daysPerYear, stopsPerJobBaseline,
                  reductionPercent, wastePerStopM, speedMPerMin, uptimePercent, haasPrice >>

\* onChange={(e) => setSubstratePrice(parseFloat(e.target.value || '0'))}
SetSubstratePrice ==
  /\ Edit
  /\ \E v \in FloatInputs : substratePrice' = v
  /\ UNCHANGED << webWidth, jobsPerShift, shiftsPerDay, daysPerYear, stopsPerJobBaseline,
                  reductionPercent, wastePerStopM, speedMPerMin, uptimePercent,
                  substrate, haasPrice >>

\* onClick={()=>setSubstratePrice(0.5)} and its two neighbours
PresetPrice ==
  /\ Edit
  /\ \E v \in Presets : substratePrice' = v
  /\ UNCHANGED << webWidth, jobsPerShift, shiftsPerDay, daysPerYear, stopsPerJobBaseline,
                  reductionPercent, wastePerStopM, speedMPerMin, uptimePercent,
                  substrate, haasPrice >>

\* a reset that also goes back to the first substrate
resetToDefaultsWithSubstrate ==
  /\ Edit
  /\ \E d \in { resetValues } :
       /\ webWidth' = d.webWidth
       /\ jobsPerShift' = d.jobsPerShift
       /\ shiftsPerDay' = d.shiftsPerDay
       /\ daysPerYear' = d.daysPerYear
       /\ stopsPerJobBaseline' = d.stopsPerJobBaseline
       /\ reductionPercent' = d.reductionPercent
       /\ wastePerStopM' = d.wastePerStopM
       /\ speedMPerMin' = d.speedMPerMin
       /\ uptimePercent' = d.uptimePercent
       /\ substratePrice' = d.substratePrice
       /\ haasPrice' = d.haasPrice
  /\ substrate' = "PETG"

\* const resetToDefaults = () => { setWebWidth(0.33); ... setHaasPrice(20000); }
resetToDefaults ==
  /\ Edit
  /\ \E d \in { resetValues } :
       /\ webWidth' = d.webWidth
       /\ jobsPerShift' = d.jobsPerShift
       /\ shiftsPerDay' = d.shiftsPerDay
       /\ daysPerYear' = d.daysPerYear
       /\ stopsPerJobBaseline' = d.stopsPerJobBaseline
       /\ reductionPercent' = d.reductionPercent
       /\ wastePerStopM' = d.wastePerStopM
       /\ speedMPerMin' = d.speedMPerMin
       /\ uptimePercent' = d.uptimePercent
       /\ substratePrice' = d.substratePrice
       /\ haasPrice' = d.haasPrice
  /\ UNCHANGED substrate

(***************************************************************************)
(* handleExportPDF: the click starts the import of the PDF library; the    *)
(* rest of the handler runs when the import settles.  Other events may     *)
(* come in between.                                                        *)
(***************************************************************************)
\* the error logged, no alert shown
ExportCatchSilent(e) ==
  /\ logged' = Append(logged, e)
  /\ alerts' = alerts

\* catch (e) { console.error(e); if (typeof window !== 'undefined') alert(...) }
\* (the handler only runs on a click, in a browser, where window is defined)
ExportCatch(e) ==
  /\ logged' = Append(logged, e)
  /\ alerts' = alerts + 1

\* the click, up to `await import('jspdf')`
handleExportPDF ==
  /\ pending + saved + Len(logged) < MaxExports
  /\ pending' = pending + 1
  /\ UNCHANGED << inputs, saved, logged, alerts, edits, call >>

\* the import is rejected (the library is missing)
ImportRejected ==
  /\ pending > 0
  /\ pending' = pending - 1
  /\ ExportCatch("import")
  /\ UNCHANGED << inputs, saved, edits, call >>

\* the import resolves: the document is laid out and saved in one go, unless
\* a call into the library throws while the rows are laid out or in doc.save
ImportResolved ==
  /\ pending > 0
  /\ pending' = pending - 1
  /\ \E thrown \in { "none", "layout", "save" } :
       IF thrown = "none"
         THEN saved' = saved + 1 /\ UNCHANGED << logged, alerts >>
         ELSE ExportCatch(thrown) /\ UNCHANGED saved
  /\ UNCHANGED << inputs, edits, call >>

Next ==
  \/ SetWebWidth
  \/ SetJobsPerShift
  \/ SetShiftsPerDay
  \/ SetDaysPerYear
  \/ SetStopsPerJobBaseline
  \/ SetReductionPercent
  \/ SetWastePerStopM
  \/ SetSpeedMPerMin
  \/ SetUptimePercent
  \/ SelectSubstrate
  \/ SetSubstratePrice
  \/ PresetPrice
  \/ resetToDefaults
  \/ handleExportPDF
  \/ ImportRejected
  \/ ImportResolved

Spec == Init /\ [][Next]_vars

(***************************************************************************)
(* The two pure functions on their own: a call with arguments drawn from   *)
(* a bounded set, then its return.                                         *)
(***************************************************************************)
Fields == DOMAIN baselineParams

\* 2^1023, the largest power of two among the numbers
Huge == Fin(0, BShl(<<1>>, Precision - 1), EMax)

\* degenerate and boundary values of each field
Alternatives ==
  [ webWidth            |-> << Lit(20, 100), Zero(0) >>,
    jobsPerShift        |-> << Huge, FromInt(-1) >>,
    shiftsPerDay        |-> << FromInt(1), FromInt(3) >>,
    daysPerYear         |-> << Zero(0), FromInt(365) >>,
    stopsPerJobBaseline |-> << FromInt(5), Zero(0) >>,
    reductionPercent    |-> << Zero(0), FromInt(100) >>,
    wastePerStopM       |-> << FromInt(95), Zero(0) >>,
    speedMPerMin        |-> << Zero(0), FromInt(300), Huge >>,
    uptimePercent       |-> << Zero(0), FromInt(100) >>,
    hoursPerShift       |-> << FromInt(12), Zero(0) >>,
    substratePrice      |-> << FromInt(-1), Lit(70, 100) >>,
    haasPrice           |-> << Zero(0), FromInt(500000) >> ]

AlternativeIndex == UNION { DOMAIN Alternatives[f] : f \in Fields }

\* the parameter sets that differ from the baseline in the fields S
Deviating(S) ==
  { [f \in Fields |-> IF f \in S THEN Alternatives[f][g[f]] ELSE baselineParams[f]] :
      g \in { h \in [S -> AlternativeIndex] : \A f \in S : h[f] \in DOMAIN Alternatives[f] } }

ParamSpace ==
  UNION { Deviating(S) : S \in { T \in SUBSET Fields : Cardinality(T) <= MaxDeviations } }

\* (actual, expected) pairs around the tolerance, and with expected = 0
ApproxSpace ==
  { << FromInt(a), FromInt(e) >> :
      a \in { 0, 1, 999, 1000, 1001, 1002, -1000, -1001, -1002 },
      e \in { 0, 1000, -1000 } }

EngineInit ==
  /\ Mounted
  /\ pending = 0
  /\ saved = 0
  /\ logged = <<>>
  /\ alerts = 0
  /\ edits = 0
  /\ \/ \E p \in ParamSpace : call = [fn |-> "computeROI", args |-> p, ret |-> NoResult]
     \/ \E ae \in ApproxSpace : call = [fn |-> "approxEqual", args |-> ae, ret |-> NoResult]

CallComputeROI ==
  /\ call.fn = "computeROI"
  /\ call.ret = NoResult
  /\ call' = [call EXCEPT !.ret = computeROI(call.args)]
  /\ UNCHANGED << inputs, exportState, edits >>

CallApproxEqual ==
  /\ call.fn = "approxEqual"
  /\ call.ret = NoResult
  /\ call' = [call EXCEPT !.ret =
                [pass |-> approxEqual(call.args[1], call.args[2], DefaultTolerancePct)]]
  /\ UNCHANGED << inputs, exportState, edits >>

EngineNext ==
  \/ CallComputeROI
  \/ CallApproxEqual

EngineSpec == EngineInit /\ [][EngineNext]_vars

(***************************************************************************)
(* Properties of the engine, stated on a returned call.                    *)
(***************************************************************************)
Returned == call.fn = "computeROI" /\ call.ret # NoResult

Compared == call.fn = "approxEqual" /\ call.ret # NoResult

\* x = 0 as the program's === sees it (either sign of zero)
EqZero(x) == FEq(x, Zero(0))

\* x < 0
Negative(x) == FLt(x, Zero(0))

AllFinite(p) == \A f \in Fields : IsFinite(p[f])

NoneNegative(p) == \A f \in Fields : IsFinite(p[f]) /\ ~Negative(p[f])

\* C1: a returned computeROI call has, bit for bit, the ten fields of the
\* stated formulas, evaluated in double arithmetic from the unrounded
\* intermediates; the avoided-stop count enters m2CalagePerYear as the
\* fraction stopsPerJobBaseline * reductionPercent / 100, never rounded.
C1_FormulasFromUnroundedIntermediates ==
  Returned =>
    LET p == call.args
        o == call.ret
    IN  /\ o.jobsPerDay = FMul(p.jobsPerShift, p.shiftsPerDay)
        /\ o.jobsPerYear = FMul(o.jobsPerDay, p.daysPerYear)
        /\ o.m2PerStop = FMul(p.webWidth, p.wastePerStopM)
        /\ o.m2CalagePerYear =
             FMul(FMul(o.m2PerStop,
                       FDivInt(FMul(p.stopsPerJobBaseline, p.reductionPercent), 100)),
                  o.jobsPerYear)
        /\ o.printedLengthPerYear =
             FMul(FMul(FMul(p.speedMPerMin, FDivInt(p.uptimePercent, 100)),
                       FMul(FMul(p.hoursPerShift, FromInt(60)), p.shiftsPerDay)),
                  p.daysPerYear)
        /\ o.m2ThreeMmPerYear = FMul(Lit(3, 1000), o.printedLengthPerYear)
        /\ o.euroCalage = FMul(o.m2CalagePerYear, p.substratePrice)
        /\ o.euroThreeMm = FMul(o.m2ThreeMmPerYear, p.substratePrice)
        /\ o.euroTotal = FAdd(o.euroCalage, o.euroThreeMm)
        /\ o.euroNet = FSub(o.euroTotal, p.haasPrice)
        /\ DOMAIN o = { "jobsPerDay", "jobsPerYear", "m2PerStop", "m2CalagePerYear",
                        "printedLengthPerYear", "m2ThreeMmPerYear", "euroCalage",
                        "euroThreeMm", "euroTotal", "euroNet" }

\* 5 stops at 50 % are 2.5 avoided stops: 33 * 2.5 * 3000 = 247500 m2
C1_FractionalStopsWitness ==
  /\ Returned
  /\ call.args = [baselineParams EXCEPT !.stopsPerJobBaseline = FromInt(5)]
  /\ call.ret.m2CalagePerYear = FromInt(247500)

\* C2: on the baseline inputs computeROI yields jobsPerYear = 3000,
\* stopsAvoidedPerJob = 3, m2PerStop = 33, m2CalagePerYear = 297000,
\* printedLengthPerDay = 95040, printedLengthPerYear = 23760000,
\* m2ThreeMmPerYear = 71280, euroCalage = 178200, euroThreeMm = 42768,
\* euroTotal = 220968 and euroNet = 200968, each exactly.
C2_BaselineValues ==
  (Returned /\ call.args = baselineParams) =>
    /\ call.ret.jobsPerYear = FromInt(3000)
    /\ StopsAvoidedPerJob(call.args) = FromInt(3)
    /\ call.ret.m2PerStop = FromInt(33)
    /\ call.ret.m2CalagePerYear = FromInt(297000)
    /\ PrintedLengthPerDay(call.args) = FromInt(95040)
    /\ call.ret.printedLengthPerYear = FromInt(23760000)
    /\ call.ret.m2ThreeMmPerYear = FromInt(71280)
    /\ call.ret.euroCalage = FromInt(178200)
    /\ call.ret.euroThreeMm = FromInt(42768)
    /\ call.ret.euroTotal = FromInt(220968)
    /\ call.ret.euroNet = FromInt(200968)

C2_BaselineWitness ==
  /\ Returned
  /\ call.args = baselineParams
  /\ call.args.webWidth = Lit(33, 100)
  /\ call.args.substratePrice = Lit(6, 10)
  /\ call.ret.jobsPerDay = FromInt(12)

\* C3: in every returned result euroNet is euroTotal - haasPrice and
\* euroTotal is euroCalage + euroThreeMm, as single double operations on
\* the returned fields (nothing is rounded in between).
C3_NetIdentity ==
  Returned =>
    /\ call.ret.euroNet = FSub(call.ret.euroTotal, call.args.haasPrice)
    /\ call.ret.euroTotal = FAdd(call.ret.euroCalage, call.ret.euroThreeMm)

\* a subscription dearer than the savings: 220968 - 500000
C3_NetLossWitness ==
  /\ Returned
  /\ call.args.haasPrice = FromInt(500000)
  /\ call.ret.euroTotal = FromInt(220968)
  /\ call.ret.euroNet = FromInt(-279032)

\* the zero outputs of a year of no days
DaysZeroOutputs ==
  /\ EqZero(call.ret.jobsPerYear)
  /\ EqZero(call.ret.printedLengthPerYear)
  /\ EqZero(call.ret.m2CalagePerYear)
  /\ EqZero(call.ret.m2ThreeMmPerYear)
  /\ EqZero(call.ret.euroCalage)
  /\ EqZero(call.ret.euroThreeMm)
  /\ EqZero(call.ret.euroTotal)
  /\ FEq(call.ret.euroNet, FNeg(call.args.haasPrice))

\* C4 (amended): if daysPerYear = 0, the twelve inputs are finite and the
\* products jobsPerDay, m2PerStop * stopsAvoidedPerJob and
\* printedLengthPerDay do not overflow, then jobsPerYear,
\* printedLengthPerYear, both areas, both savings and euroTotal are 0 and
\* euroNet = -haasPrice.
C4_DaysZeroWithoutOverflow ==
  ( /\ Returned
    /\ EqZero(call.args.daysPerYear)
    /\ AllFinite(call.args)
    /\ IsFinite(call.ret.jobsPerDay)
    /\ IsFinite(FMul(call.ret.m2PerStop,
                     FDivInt(FMul(call.args.stopsPerJobBaseline,
                                  call.args.reductionPercent), 100)))
    /\ IsFinite(FMul(FMul(call.args.speedMPerMin, FDivInt(call.args.uptimePercent, 100)),
                     FMul(FMul(call.args.hoursPerShift, FromInt(60)),
                          call.args.shiftsPerDay))) )
  => DaysZeroOutputs

\* a year of no days with a subscription to pay
C4_DaysZeroWitness ==
  /\ Returned
  /\ EqZero(call.args.daysPerYear)
  /\ call.args.haasPrice = FromInt(500000)
  /\ call.ret.jobsPerDay = FromInt(12)
  /\ call.ret.euroNet = FromInt(-500000)

\* C4 as stated: daysPerYear = 0 gives the zero outputs whatever the other
\* eleven inputs are.
C4_DaysZeroWhateverTheInputs ==
  (Returned /\ EqZero(call.args.daysPerYear)) => DaysZeroOutputs

\* the outputs of no reduction
ReductionZeroOutputs ==
  /\ EqZero(FDivInt(FMul(call.args.stopsPerJobBaseline, call.args.reductionPercent), 100))
  /\ EqZero(call.ret.m2CalagePerYear)
  /\ EqZero(call.ret.euroCalage)
  /\ FEq(call.ret.euroTotal, call.ret.euroThreeMm)

\* C5 (amended): if reductionPercent = 0, the twelve inputs are finite and
\* jobsPerYear, m2PerStop and euroThreeMm are finite (nothing overflowed),
\* then stopsAvoidedPerJob, m2CalagePerYear and euroCalage are 0 and
\* euroTotal = euroThreeMm.
C5_ReductionZeroWithoutOverflow ==
  ( /\ Returned
    /\ EqZero(call.args.reductionPercent)
    /\ AllFinite(call.args)
    /\ IsFinite(call.ret.jobsPerYear)
    /\ IsFinite(call.ret.m2PerStop)
    /\ IsFinite(call.ret.euroThreeMm) )
  => ReductionZeroOutputs

\* no reduction on the baseline line: only the 3 mm saving is left
C5_ReductionZeroWitness ==
  /\ Returned
  /\ EqZero(call.args.reductionPercent)
  /\ call.args.stopsPerJobBaseline = FromInt(6)
  /\ call.ret.jobsPerYear = FromInt(3000)
  /\ call.ret.euroTotal = FromInt(42768)

\* C5 as stated: reductionPercent = 0 gives these outputs regardless of the
\* other inputs.
C5_ReductionZeroRegardless ==
  (Returned /\ EqZero(call.args.reductionPercent)) => ReductionZeroOutputs

\* the fields of the result other than euroNet
GrossFields ==
  { "jobsPerDay", "jobsPerYear", "m2PerStop", "m2CalagePerYear", "printedLengthPerYear",
    "m2ThreeMmPerYear", "euroCalage", "euroThreeMm", "euroTotal" }

\* C6 (amended): if none of the twelve inputs is negative, no field of the
\* result other than euroNet is below zero (each is >= 0, or NaN where an
\* overflowed product meets a zero); euroNet is below zero when haasPrice
\* exceeds euroTotal.
C6_NonNegativeForNonNegativeInputs ==
  (Returned /\ NoneNegative(call.args)) =>
    /\ \A f \in GrossFields : ~Negative(call.ret[f])
    /\ FLt(call.ret.euroTotal, call.args.haasPrice) => Negative(call.ret.euroNet)

\* non-negative inputs with a net loss
C6_OnlyNetNegativeWitness ==
  /\ Returned
  /\ NoneNegative(call.args)
  /\ Negative(call.ret.euroNet)
  /\ \A f \in GrossFields : FLt(Zero(0), call.ret[f])

\* C6 as stated: for every parameter set computeROI accepts, every field
\* other than euroNet is >= 0.
C6_NonNegativeForEveryInput ==
  Returned => \A f \in GrossFields : FLe(Zero(0), call.ret[f])

\* the factors of the linearity checks: a power of two and a decimal
\* fraction
Two == FromInt(2)
Tenth == Lit(1, 10)
Factors == { Two, Tenth }

\* the result for the call's parameters with field f multiplied by k
Scaled(f, k) == computeROI([call.args EXCEPT ![f] = FMul(k, call.args[f])])

\* 2^-50, four units in the last place
RelTol == Fin(0, BShl(<<1>>, Precision - 1), 0 - 50 - (Precision - 1))

\* x and y are finite and differ by at most RelTol of y
Close(x, y) ==
  /\ IsFinite(x)
  /\ IsFinite(y)
  /\ FLe(FAbs(FSub(x, y)), FMul(FAbs(y), RelTol))

\* the scaled results are exactly k times the unscaled ones
ExactlyLinear(k) ==
  /\ Scaled("webWidth", k).m2PerStop = FMul(k, call.ret.m2PerStop)
  /\ Scaled("wastePerStopM", k).m2PerStop = FMul(k, call.ret.m2PerStop)
  /\ Scaled("substratePrice", k).euroTotal = FMul(k, call.ret.euroTotal)

\* the scaled results are k times the unscaled ones up to rounding
NearlyLinear(k) ==
  /\ Close(Scaled("webWidth", k).m2PerStop, FMul(k, call.ret.m2PerStop))
  /\ Close(Scaled("wastePerStopM", k).m2PerStop, FMul(k, call.ret.m2PerStop))
  /\ Close(Scaled("substratePrice", k).euroTotal, FMul(k, call.ret.euroTotal))

\* the inputs are not negative and the result is finite
LinearityDomain ==
  /\ Returned
  /\ NoneNegative(call.args)
  /\ \A f \in DOMAIN call.ret : IsFinite(call.ret[f])

ApproxInts == { 0, 1, 999, 1000, 1001, 1002, -1000, -1001, -1002 }

Abs(n) == IF n < 0 THEN 0 - n ELSE n

\* C9: a returned approxEqual call with the default tolerance is true
\* exactly when |actual - expected| <= |expected| * 0.001, both in double
\* arithmetic and, for whole-number arguments, in exact arithmetic
\* (1000 * |a - e| <= |e|); with expected = 0 only actual = 0 passes (there
\* is no absolute epsilon), and the two expected values the program passes
\* to it are not zero.
C9_RelativeTolerance ==
  /\ Compared =>
       /\ call.ret.pass <=>
            FLe(FAbs(FSub(call.args[1], call.args[2])),
                FMul(FAbs(call.args[2]), Lit(1, 1000)))
       /\ \A a, e \in ApproxInts :
            call.args = << FromInt(a), FromInt(e) >> =>
              (call.ret.pass <=> 1000 * Abs(a - e) <= Abs(e))
       /\ EqZero(call.args[2]) => (call.ret.pass <=> EqZero(call.args[1]))
  /\ ~EqZero(expected.m2CalagePerYear)
  /\ ~EqZero(expected.m2ThreeMmPerYear)

\* on the edge of the tolerance: 1001 against 1000 passes
C9_EdgeOfToleranceWitness ==
  /\ Compared
  /\ call.args = << FromInt(1001), FromInt(1000) >>
  /\ call.ret.pass

(***************************************************************************)
(* Properties of the component.                                            *)
(***************************************************************************)
\* the report of the two self-checks, both passing
PassingReport ==
  << [name |-> "Calage m2/year", pass |-> TRUE],
     [name |-> "-3 mm m2/year", pass |-> TRUE] >>

\* the two literal formulas come to 297000 and 71280, neither of them zero
ExpectedAsWritten ==
  /\ ~EqZero(expected.m2CalagePerYear)
  /\ ~EqZero(expected.m2ThreeMmPerYear)
  /\ expected.m2CalagePerYear = FromInt(297000)
  /\ expected.m2ThreeMmPerYear = FromInt(71280)

\* C8: the test panel has exactly two entries, for m2CalagePerYear and
\* m2ThreeMmPerYear of the fixed baseline against the literal formulas
\* (297000 and 71280, both non-zero), and both pass; no step of the
\* component, whatever it does to the inputs, changes that report.
C8_SelfChecksAlwaysPass ==
  [][ /\ tests = PassingReport
      /\ tests' = PassingReport
      /\ Len(tests') = 2
      /\ ExpectedAsWritten ]_vars

\* inputs far from the baseline (a year of no days), the checks still pass
C8_EditedInputsWitness ==
  /\ edits > 0
  /\ EqZero(daysPerYear)
  /\ EqZero(r.m2CalagePerYear)
  /\ tests[1].pass
  /\ tests[2].pass

DefaultPrices ==
  [ PETG |-> Lit(6, 10), PVC |-> Lit(45, 100), OPS |-> Lit(52, 100), BOPP |-> Lit(30, 100) ]

DefaultPriceOf(s) == DefaultPrices[s]

\* the prices of the three preset buttons: 0.5, 0.6, 0.7
PresetPrices == { Lit(5, 10), Lit(6, 10), Lit(7, 10) }

\* the price after a reset: 0.6
ResetPrice == Lit(6, 10)

\* a step that writes the price
PriceAffecting == SelectSubstrate \/ SetSubstratePrice \/ PresetPrice \/ resetToDefaults

\* C11: substratePrice is what the latest price-affecting step wrote:
\* selecting a substrate writes that substrate's default (PETG 0.6, PVC
\* 0.45, OPS 0.52, BOPP 0.30); a typed price or a preset button writes its
\* value and leaves the substrate; reset writes 0.6 and leaves the
\* substrate; only such steps change either.  params always has the twelve
\* numeric fields and no substrate, with substratePrice the current
\* price, so a step that changes only the substrate leaves params, and
\* with it r = computeROI(params), unchanged.
C11_PriceFollowsLastWriter ==
  /\ [](/\ DOMAIN params = Fields
        /\ Cardinality(DOMAIN params) = 12
        /\ "substrate" \notin DOMAIN params
        /\ params.substratePrice = substratePrice
        /\ substrate \in Substrates)
  /\ [][ /\ SelectSubstrate => substratePrice' = DefaultPriceOf(substrate')
         /\ SetSubstratePrice =>
              /\ substrate' = substrate
              /\ substratePrice' \in FloatInputs
         /\ PresetPrice =>
              /\ substrate' = substrate
              /\ substratePrice' \in PresetPrices
         /\ resetToDefaults =>
              /\ substrate' = substrate
              /\ substratePrice' = ResetPrice
         /\ (substrate' # substrate \/ substratePrice' # substratePrice) => PriceAffecting
         /\ ( /\ substrate' # substrate
              /\ \A f \in Fields : params'[f] = params[f] ) => params' = params ]_vars

\* PVC was selected (0.45), then the price set back by hand: the twelve
\* numeric inputs are the baseline again under another substrate
C11_OverriddenPriceWitness ==
  /\ edits = 2
  /\ substrate = "PVC"
  /\ substratePrice = ResetPrice
  /\ substratePrice # DefaultPriceOf(substrate)
  /\ params = baselineParams
  /\ r = computeROI(baselineParams)

====
